---- MODULE Spec2Model ----
(***************************************************************************)
(* A model of lidarview.cpp: the rasterizer gridify(), the ground/building *)
(* classifier find_ground() and the keypress() handler that re-runs it.    *)
(*                                                                         *)
(* Elevations and the slope threshold are floats in the source.  Here they *)
(* are integers counted in units of the 0.05 threshold step of keypress(), *)
(* so that '+' and '-' move the threshold by exactly one unit; the model   *)
(* therefore keeps every comparison of the source (<, <=, ==) but not the  *)
(* rounding of float arithmetic.                                           *)
(*                                                                         *)
(* Grids are functions [0..rows-1 -> [0..cols-1 -> value]], indexed as the *)
(* vector<vector<..>> of the source is.                                    *)
(***************************************************************************)
EXTENDS Integers, Sequences, FiniteSets, TLC

\* ---------------------------------------------------------------- constants

NODATA == -9999
BIGINT == 268435455

\* the three values a cell of is_ground takes
Unclassified == -1
Ground == 1
Building == 0

\* globals as initialised before main() overwrites them from argv
DefaultThreshold == 10
DefaultDensity == 5

\* ------------------------------------------------------------------- bounds

\* a DepthGrid handed to find_ground has at most MaxCells cells
MaxCells == 4
\* its non-NODATA values are 0..MaxHeight
MaxHeight == 2
\* building_slope_threshold ranges over -MaxThreshold..MaxThreshold
MaxThreshold == 2

\* a file holds at most MaxPoints points
MaxPoints == 2
\* with x in 0..MaxX and y in 0..MaxY
MaxX == 2
MaxY == 2
\* z is one of MaxZ + 1 levels
MaxZ == 1
\* point_density (argv[2]) is in 1..MaxDensity
MaxDensity == 3
\* the number of raised cells of a plateau grid
MaxRaised == 2

Heights == 0..MaxHeight
Thresholds == (0 - MaxThreshold)..MaxThreshold
Shapes == {s \in (1..MaxCells) \X (1..MaxCells) : s[1] * s[2] <= MaxCells}
GridsOf(s) == [0..(s[1] - 1) -> [0..(s[2] - 1) -> Heights \cup {NODATA}]]
DepthGrids == UNION {GridsOf(s) : s \in Shapes}

\* -------------------------------------------------------------------- state

VARIABLES
  points,                   \* vector<lidarPoint> points
  point_density,            \* int point_density
  bbox,                     \* minx, maxx, miny, maxy, minz, maxz
  elevation,                \* vector<vector<float> > elevation
  min_elevation,            \* float min_elevation
  last_grid,                \* vector<vector<float> > last_grid
  is_ground,                \* vector<vector<int> > is_ground (the global)
  building_slope_threshold, \* float building_slope_threshold
  HILL_SHADE,               \* int HILL_SHADE
  cout,                     \* the last line keypress printed on cout
  fg_is_ground,             \* find_ground's local is_ground
  q,                        \* find_ground's queue<Point> q
  unclassified_count,       \* find_ground's unclassified_count
  pc                        \* where the single control thread is

vars == <<points, point_density, bbox, elevation, min_elevation, last_grid,
          is_ground, building_slope_threshold, HILL_SHADE, cout,
          fg_is_ground, q, unclassified_count, pc>>

input_vars == <<points, point_density, bbox>>
view_vars == <<HILL_SHADE, cout>>
grid_vars == <<elevation, min_elevation, last_grid>>
fg_locals == <<fg_is_ground, q, unclassified_count>>

\* ------------------------------------------------------------- grid helpers

EmptyGrid == <<>>
NumRows(grid) == Cardinality(DOMAIN grid)
NumCols(grid) == IF NumRows(grid) = 0 THEN 0 ELSE Cardinality(DOMAIN grid[0])
Cells(grid) == {c \in (0..(NumRows(grid) - 1)) \X (0..(NumCols(grid) - 1)) : TRUE}
At(grid, c) == grid[c[1]][c[2]]
ConstGrid(rows, cols, v) == [i \in 0..(rows - 1) |-> [j \in 0..(cols - 1) |-> v]]

\* ---------------------------------------------------------------- the input

RECURSIVE Factorial(_)
Factorial(n) == IF n <= 1 THEN 1 ELSE n * Factorial(n - 1)

\* The z levels are multiples of MaxPoints!, so that the mean of up to
\* MaxPoints of them is a whole number and the division of lines 298 and 302
\* is exact in the model as it is in float arithmetic on such values.
ZValues == {k * Factorial(MaxPoints) : k \in 0..MaxZ}

\* return_number / nb_of_returns: 1/1, 1/2 and 2/2 (lines 101-108)
ReturnPairs == {<<1, 1>>, <<1, 2>>, <<2, 2>>}

\* lidarPoint, lines 45-52 (code and mycode are not read by gridify)
LidarPoints ==
  {[x |-> x, y |-> y, z |-> z, nb_of_returns |-> rp[2], return_number |-> rp[1]] :
     x \in 0..MaxX, y \in 0..MaxY, z \in ZValues, rp \in ReturnPairs}

Files == UNION {[1..n -> LidarPoints] : n \in 0..MaxPoints}
Densities == 1..MaxDensity

\* ------------------------------------------------------ readPointsFromFile

ZeroBox == [minx |-> 0, maxx |-> 0, miny |-> 0, maxy |-> 0, minz |-> 0, maxz |-> 0]

Min2(a, b) == IF a > b THEN b ELSE a
Max2(a, b) == IF a < b THEN b ELSE a

\* lines 352-363: the bounding box after the points file[1..k]
RECURSIVE ReadBBox(_, _)
ReadBBox(file, k) ==
  IF k = 0 THEN ZeroBox
  ELSE LET p == file[k]
           b == ReadBBox(file, k - 1)
       IN IF k = 1
          THEN [minx |-> p.x, maxx |-> p.x, miny |-> p.y, maxy |-> p.y,
                minz |-> p.z, maxz |-> p.z]
          ELSE [minx |-> Min2(b.minx, p.x), maxx |-> Max2(b.maxx, p.x),
                miny |-> Min2(b.miny, p.y), maxy |-> Max2(b.maxy, p.y),
                minz |-> Min2(b.minz, p.z), maxz |-> Max2(b.maxz, p.z)]

\* ----------------------------------------------------------------- gridify

\* line 237: integer division
NumCells(pts, density) == Len(pts) \div density
\* lines 240-241
BoxH(box) == box.maxy - box.miny
BoxW(box) == box.maxx - box.minx

\* line 244 divides by num_cells and lines 246-247 by delta: with no cell, or
\* a box of no width or no height, delta is 0, infinite or NaN and the
\* conversion of ceil(h/delta) to int is undefined
Degenerate(pts, density, box) ==
  NumCells(pts, density) = 0 \/ BoxH(box) = 0 \/ BoxW(box) = 0

\* ceil(sqrt(num/den)) and floor(sqrt(num/den)) for num >= 0, den > 0, in
\* exact arithmetic
CeilSqrt(num, den) == CHOOSE k \in 0..(num + 1) :
  k * k * den >= num /\ (k = 0 \/ (k - 1) * (k - 1) * den < num)
FloorSqrt(num, den) == CHOOSE k \in 0..(num + 1) :
  k * k * den <= num /\ (k + 1) * (k + 1) * den > num

\* lines 244-247: delta = sqrt(h*w/num_cells), so h/delta = sqrt(h*h*n/(h*w))
GridRows(pts, density, box) ==
  CeilSqrt(BoxH(box) * BoxH(box) * NumCells(pts, density), BoxH(box) * BoxW(box))
GridCols(pts, density, box) ==
  CeilSqrt(BoxW(box) * BoxW(box) * NumCells(pts, density), BoxH(box) * BoxW(box))

\* lines 259-260: the cell of a point, floor((p.y - miny)/delta) and
\* floor((p.x - minx)/delta)
CellRow(p, pts, density, box) ==
  FloorSqrt((p.y - box.miny) * (p.y - box.miny) * NumCells(pts, density),
            BoxH(box) * BoxW(box))
CellCol(p, pts, density, box) ==
  FloorSqrt((p.x - box.minx) * (p.x - box.minx) * NumCells(pts, density),
            BoxH(box) * BoxW(box))

\* lines 263 and 267 index first_returns[r][c] and last_returns[r][c]: outside
\* the rows x cols vectors for a point on the upper edge of a cell row or column
BinningOutOfBounds(pts, density, box) ==
  \E k \in 1..Len(pts) :
    \/ CellRow(pts[k], pts, density, box) >= GridRows(pts, density, box)
    \/ CellCol(pts[k], pts, density, box) >= GridCols(pts, density, box)

\* line 262
IsFirstReturn(p) == p.return_number = 1
\* line 266
IsLastReturn(p) == p.return_number = p.return_number

\* lines 256-269: the z values pushed on one cell's list, in file order;
\* which is 1 for first_returns and 2 for last_returns
RECURSIVE Samples(_, _, _, _, _, _, _)
Samples(pts, density, box, k, r, c, which) ==
  IF k = 0 THEN <<>>
  ELSE LET p == pts[k]
           before == Samples(pts, density, box, k - 1, r, c, which)
       IN IF /\ CellRow(p, pts, density, box) = r
             /\ CellCol(p, pts, density, box) = c
             /\ IF which = 1 THEN IsFirstReturn(p) ELSE IsLastReturn(p)
          THEN Append(before, p.z)
          ELSE before

\* lines 287-292
RECURSIVE SumSeq(_)
SumSeq(samples) ==
  IF samples = <<>> THEN 0 ELSE Head(samples) + SumSeq(Tail(samples))

\* lines 297-303 on a grid initialised to NODATA (lines 271-272)
CellAverage(samples) ==
  IF Len(samples) > 0 THEN SumSeq(samples) \div Len(samples) ELSE NODATA

\* line 280: the inner loop runs j up to first_returns.size(), the number of rows
ColumnLimit(rows, cols) == rows

\* lines 279-280: the cells the averaging loops visit
Averaged(rows, cols, i, j) == i < rows /\ j < ColumnLimit(rows, cols)

\* line 280 with rows > cols reads first_returns[i][j] for j >= cols
AveragingOutOfBounds(pts, density, box) ==
  ColumnLimit(GridRows(pts, density, box), GridCols(pts, density, box))
    > GridCols(pts, density, box)

\* lines 271-303: avg_height (which = 1) and avg_depth (which = 2)
AvgGrid(pts, density, box, which) ==
  LET rows == GridRows(pts, density, box)
      cols == GridCols(pts, density, box)
  IN [i \in 0..(rows - 1) |-> [j \in 0..(cols - 1) |->
        IF Averaged(rows, cols, i, j)
        THEN CellAverage(Samples(pts, density, box, Len(pts), i, j, which))
        ELSE NODATA]]

\* a mutant of MinScan: the assignment of line 310 is dropped
MinScanInitial(grid, rows, cols, k, min) == min

\* lines 275 and 308-311, over the cells the loops visit, in their order
RECURSIVE MinScan(_, _, _, _, _)
MinScan(grid, rows, cols, k, min) ==
  IF k >= rows * cols THEN min
  ELSE LET i == k \div cols
           j == k % cols
       IN MinScan(grid, rows, cols, k + 1,
                  IF /\ Averaged(rows, cols, i, j)
                     /\ grid[i][j] # NODATA
                     /\ grid[i][j] < min
                  THEN grid[i][j] ELSE min)

GridifyDefined(pts, density, box) ==
  /\ ~Degenerate(pts, density, box)
  /\ ~BinningOutOfBounds(pts, density, box)
  /\ ~AveragingOutOfBounds(pts, density, box)

\* ------------------------------------------------------------- find_ground

\* the locals of find_ground as one record: ig is the local is_ground
FgState == [ig |-> fg_is_ground, q |-> q, cnt |-> unclassified_count]

\* lines 918-932: everything -1, empty queue, count of the non-NODATA cells
FgEntry(grid) ==
  [ig |-> ConstGrid(NumRows(grid), NumCols(grid), Unclassified),
   q |-> <<>>,
   cnt |-> NumRows(grid) * NumCols(grid)
           - Cardinality({c \in Cells(grid) : At(grid, c) = NODATA})]

\* lines 942-944: a cell replaces the minimum found so far
SeedCandidate(grid, ig, i, j, min_height) ==
  /\ grid[i][j] # NODATA
  /\ ig[i][j] = Unclassified
  /\ grid[i][j] < min_height

\* lines 937-950: the row-major scan, from linear index k on
RECURSIVE SeedScan(_, _, _, _)
SeedScan(grid, ig, k, best) ==
  IF k >= NumRows(grid) * NumCols(grid) THEN best
  ELSE LET i == k \div NumCols(grid)
           j == k % NumCols(grid)
       IN SeedScan(grid, ig, k + 1,
                   IF SeedCandidate(grid, ig, i, j, best.min_height)
                   THEN [min_height |-> grid[i][j], min_i |-> i, min_j |-> j]
                   ELSE best)

\* lines 936-955: one seed selection of the do-while body
SeedStep(grid, st) ==
  LET m == SeedScan(grid, st.ig, 0,
                    [min_height |-> BIGINT, min_i |-> 0, min_j |-> 0])
  IN [ig |-> [st.ig EXCEPT ![m.min_i][m.min_j] = Ground],
      q |-> Append(st.q, <<m.min_i, m.min_j, m.min_height>>),
      cnt |-> st.cnt - 1]

\* a mutant of CurrType: the popped cell's label is read negated
CurrTypeNegated(label) == IF label # 0 THEN 0 ELSE 1

\* line 965: bool curr_type = is_ground[curr_i][curr_j], used as an int
CurrType(label) == IF label # 0 THEN 1 ELSE 0

\* lines 972-974
InBounds(grid, i, j) ==
  i >= 0 /\ j >= 0 /\ i < NumRows(grid) /\ j < NumCols(grid)

\* a mutant of Skipped: the test for an already visited cell is dropped
SkippedNodataOnly(grid, ig, i, j) == grid[i][j] = NODATA

\* line 981-982: already visited, or NODATA
Skipped(grid, ig, i, j) == ig[i][j] # Unclassified \/ grid[i][j] = NODATA

\* a mutant of GentleSlope: the comparison with the threshold is dropped
GentleSlopeUnbounded(slope, threshold) == slope >= 0

\* a mutant of GentleSlope: the test slope >= 0 is dropped
GentleSlopeDownhill(slope, threshold) == slope <= threshold

\* line 990
GentleSlope(slope, threshold) == slope <= threshold /\ slope >= 0
\* a mutant of SteepSlope: the comparison with the threshold is flipped
SteepSlopeFlipped(slope, threshold) == slope < threshold

\* line 996
SteepSlope(slope, threshold) == slope > threshold

\* lines 970-1005: one neighbour (di, dj) of the popped cell
Visit(grid, threshold, st, current, curr_type, di, dj) ==
  LET new_i == current[1] + di
      new_j == current[2] + dj
  IN IF ~InBounds(grid, new_i, new_j) THEN st
     ELSE IF Skipped(grid, st.ig, new_i, new_j) THEN st
     ELSE LET new_h == grid[new_i][new_j]
              slope == new_h - current[3]
          IN IF GentleSlope(slope, threshold)
             THEN [ig |-> [st.ig EXCEPT ![new_i][new_j] = curr_type],
                   q |-> Append(st.q, <<new_i, new_j, new_h>>),
                   cnt |-> st.cnt - 1]
             ELSE IF SteepSlope(slope, threshold)
             THEN [ig |-> [st.ig EXCEPT ![new_i][new_j] = Building],
                   q |-> Append(st.q, <<new_i, new_j, new_h>>),
                   cnt |-> st.cnt - 1]
             ELSE st

\* lines 959-1008: pop the front cell and look in the four compass
\* directions, in the order the di/dj loops produce them
BfsStep(grid, threshold, st) ==
  LET current == Head(st.q)
      curr_type == CurrType(st.ig[current[1]][current[2]])
      s0 == [st EXCEPT !.q = Tail(st.q)]
      s1 == Visit(grid, threshold, s0, current, curr_type, -1, 0)
      s2 == Visit(grid, threshold, s1, current, curr_type, 0, -1)
      s3 == Visit(grid, threshold, s2, current, curr_type, 0, 1)
  IN Visit(grid, threshold, s3, current, curr_type, 1, 0)

\* a mutant of LoopAgain: the loop stops one cell early
LoopAgainOffByOne(cnt) == cnt > 1

\* line 1010: the do-while condition
LoopAgain(cnt) == cnt > 0

\* lines 958-1009: the inner while loop run to its end
RECURSIVE RunBfs(_, _, _)
RunBfs(grid, threshold, st) ==
  IF st.q = <<>> THEN st ELSE RunBfs(grid, threshold, BfsStep(grid, threshold, st))

\* lines 935-1011: the do-while loop run to its end; the value returned
RECURSIVE RunLoop(_, _, _)
RunLoop(grid, threshold, st) ==
  LET after == RunBfs(grid, threshold, SeedStep(grid, st))
  IN IF LoopAgain(after.cnt) THEN RunLoop(grid, threshold, after) ELSE after.ig

\* lines 917-1012: find_ground as a function of last_grid and the threshold
find_ground(grid, threshold) == RunLoop(grid, threshold, FgEntry(grid))

\* a mutant of CallFindGround: the run starts from the labels of the previous
\* run instead of an all-Unclassified grid
CallFindGroundIncremental(grid) ==
  /\ fg_is_ground' = IF is_ground = EmptyGrid THEN FgEntry(grid).ig ELSE is_ground
  /\ q' = FgEntry(grid).q
  /\ unclassified_count' = FgEntry(grid).cnt
  /\ pc' = "fg_seed"

\* the caller's side of a call of find_ground: its locals are initialised
CallFindGround(grid) ==
  /\ fg_is_ground' = FgEntry(grid).ig
  /\ q' = FgEntry(grid).q
  /\ unclassified_count' = FgEntry(grid).cnt
  /\ pc' = "fg_seed"

\* lines 936-955
FgSeed ==
  /\ pc = "fg_seed"
  /\ LET s == SeedStep(last_grid, FgState)
     IN /\ fg_is_ground' = s.ig
        /\ q' = s.q
        /\ unclassified_count' = s.cnt
  /\ pc' = "fg_bfs"
  /\ UNCHANGED <<input_vars, grid_vars, is_ground, building_slope_threshold,
                 view_vars>>

\* lines 958-1008, one iteration of while(q.size())
FgBfs ==
  /\ pc = "fg_bfs"
  /\ q # <<>>
  /\ LET s == BfsStep(last_grid, building_slope_threshold, FgState)
     IN /\ fg_is_ground' = s.ig
        /\ q' = s.q
        /\ unclassified_count' = s.cnt
  /\ UNCHANGED <<input_vars, grid_vars, is_ground, building_slope_threshold,
                 view_vars, pc>>

\* line 1010, condition true: back to the seed selection
FgLoopAgain ==
  /\ pc = "fg_bfs"
  /\ q = <<>>
  /\ LoopAgain(unclassified_count)
  /\ pc' = "fg_seed"
  /\ UNCHANGED <<input_vars, grid_vars, is_ground, building_slope_threshold,
                 view_vars, fg_locals>>

\* lines 1010-1011 and the caller's "is_ground = find_ground()" (lines 318,
\* 485, 494): the local grid becomes the global one, the locals die
FgReturn ==
  /\ pc = "fg_bfs"
  /\ q = <<>>
  /\ ~LoopAgain(unclassified_count)
  /\ is_ground' = fg_is_ground
  /\ fg_is_ground' = EmptyGrid
  /\ unclassified_count' = 0
  /\ pc' = "idle"
  /\ UNCHANGED <<input_vars, grid_vars, building_slope_threshold, view_vars, q>>

\* ---------------------------------------------------------------- keypress

\* lines 480-487: case '+' (the threshold is kept within the model's range)
KeyPlus ==
  /\ pc = "idle"
  /\ building_slope_threshold < MaxThreshold
  /\ building_slope_threshold' = building_slope_threshold + 1
  /\ cout' = <<building_slope_threshold'>>
  /\ CallFindGround(last_grid)
  /\ UNCHANGED <<input_vars, grid_vars, is_ground, HILL_SHADE>>

\* lines 489-496: case '-'
KeyMinus ==
  /\ pc = "idle"
  /\ building_slope_threshold > 0 - MaxThreshold
  /\ building_slope_threshold' = building_slope_threshold - 1
  /\ cout' = <<building_slope_threshold'>>
  /\ CallFindGround(last_grid)
  /\ UNCHANGED <<input_vars, grid_vars, is_ground, HILL_SHADE>>

\* lines 475-478: case 's', standing for the keys that only change the view
KeyS ==
  /\ pc = "idle"
  /\ HILL_SHADE' = 1 - HILL_SHADE
  /\ UNCHANGED <<input_vars, grid_vars, is_ground, building_slope_threshold,
                 cout, fg_locals, pc>>

\* lines 657-659: case 'q'
KeyQ ==
  /\ pc = "idle"
  /\ pc' = "exited"
  /\ UNCHANGED <<input_vars, grid_vars, is_ground, building_slope_threshold,
                 view_vars, fg_locals>>

\* ------------------------------------------------ main, readPointsFromFile

\* lines 378-381: the wrong number of arguments
MainUsage ==
  /\ pc = "main"
  /\ pc' = "exit1"
  /\ UNCHANGED <<input_vars, grid_vars, is_ground, building_slope_threshold,
                 view_vars, fg_locals>>

\* lines 383-386
Main ==
  /\ pc = "main"
  /\ \E density \in Densities, threshold \in Thresholds :
       /\ point_density' = density
       /\ building_slope_threshold' = threshold
  /\ pc' = "read"
  /\ UNCHANGED <<points, bbox, grid_vars, is_ground, view_vars, fg_locals>>

\* lines 331-335: the file cannot be opened
ReadCannotOpen ==
  /\ pc = "read"
  /\ pc' = "exit1"
  /\ UNCHANGED <<input_vars, grid_vars, is_ground, building_slope_threshold,
                 view_vars, fg_locals>>

\* lines 337-371, up to the call of gridify
ReadPointsFromFile ==
  /\ pc = "read"
  /\ \E file \in Files :
       /\ points' = file
       /\ bbox' = ReadBBox(file, Len(file))
  /\ pc' = "gridify"
  /\ UNCHANGED <<point_density, grid_vars, is_ground, building_slope_threshold,
                 view_vars, fg_locals>>

\* lines 236-318, up to the call of find_ground
Gridify ==
  /\ pc = "gridify"
  /\ GridifyDefined(points, point_density, bbox)
  /\ LET avg_height == AvgGrid(points, point_density, bbox, 1)
         avg_depth == AvgGrid(points, point_density, bbox, 2)
     IN /\ elevation' = avg_height
        /\ last_grid' = avg_depth
        /\ min_elevation' = MinScan(avg_height, NumRows(avg_height),
                                    NumCols(avg_height), 0, bbox.maxz)
        /\ CallFindGround(avg_depth)
  /\ UNCHANGED <<input_vars, is_ground, building_slope_threshold, view_vars>>

\* gridify on an input for which its behaviour is undefined: the process
\* is killed, or runs on with nothing known about its state
GridifyUndefined ==
  /\ pc = "gridify"
  /\ ~GridifyDefined(points, point_density, bbox)
  /\ pc' \in {"crashed", "undefined"}
  /\ UNCHANGED <<input_vars, grid_vars, is_ground, building_slope_threshold,
                 view_vars, fg_locals>>

\* ---------------------------------------------- specification of the program

\* the globals as initialised (lines 62-92), before main runs
Init ==
  /\ points = <<>>
  /\ point_density = DefaultDensity
  /\ bbox = ZeroBox
  /\ elevation = EmptyGrid
  /\ min_elevation = 0
  /\ last_grid = EmptyGrid
  /\ is_ground = EmptyGrid
  /\ building_slope_threshold = DefaultThreshold
  /\ HILL_SHADE = 1
  /\ cout = <<>>
  /\ fg_is_ground = EmptyGrid
  /\ q = <<>>
  /\ unclassified_count = 0
  /\ pc = "main"

Next ==
  \/ MainUsage \/ Main \/ ReadCannotOpen \/ ReadPointsFromFile
  \/ Gridify \/ GridifyUndefined
  \/ FgSeed \/ FgBfs \/ FgLoopAgain \/ FgReturn
  \/ KeyPlus \/ KeyMinus \/ KeyS \/ KeyQ

Spec == Init /\ [][Next]_vars

\* ------------------------------------------- specification of classification

\* lines 308-311 on a finished elevation grid: the lowest non-NODATA value,
\* or the initial maxz when there is none
MinOfGrid(grid, maxz) ==
  LET vals == {At(grid, c) : c \in {d \in Cells(grid) : At(grid, d) # NODATA}}
  IN IF vals = {} THEN maxz ELSE CHOOSE v \in vals : \A u \in vals : v <= u

\* The state in which gridify calls find_ground (line 318), for every
\* DepthGrid and threshold within the bounds.
InitFG ==
  /\ points = <<>>
  /\ point_density = DefaultDensity
  /\ bbox = ZeroBox
  /\ last_grid \in DepthGrids
  /\ elevation = last_grid
  /\ min_elevation = MinOfGrid(last_grid, MaxHeight)
  /\ is_ground = EmptyGrid
  /\ building_slope_threshold \in Thresholds
  /\ HILL_SHADE = 1
  /\ cout = <<>>
  /\ fg_is_ground = FgEntry(last_grid).ig
  /\ q = FgEntry(last_grid).q
  /\ unclassified_count = FgEntry(last_grid).cnt
  /\ pc = "fg_seed"

\* find_ground and the keys that call it or end the program
NextFG == FgSeed \/ FgBfs \/ FgLoopAgain \/ FgReturn \/ KeyPlus \/ KeyMinus \/ KeyQ

SpecFG == InitFG /\ [][NextFG]_vars

\* the same with the keys that only change the view: all of keypress
NextKeys == NextFG \/ KeyS

SpecKeys == InitFG /\ [][NextKeys]_vars

\* The 3 x 3 grids of the spec's scenarios: a plateau of elevation 0 with up
\* to MaxRaised cells raised, each by its own amount.
PlateauCells == (0..2) \X (0..2)
RaisedSets == {S \in SUBSET PlateauCells : Cardinality(S) <= MaxRaised}
PlateauOf(S, raise) ==
  [i \in 0..2 |-> [j \in 0..2 |-> IF <<i, j>> \in S THEN raise[<<i, j>>] ELSE 0]]
PlateauGrids ==
  UNION {{PlateauOf(S, raise) : raise \in [S -> 1..MaxHeight]} : S \in RaisedSets}

\* The state in which gridify calls find_ground (line 318), for every
\* plateau grid and threshold within the bounds.
InitPlateau ==
  /\ points = <<>>
  /\ point_density = DefaultDensity
  /\ bbox = ZeroBox
  /\ last_grid \in PlateauGrids
  /\ elevation = last_grid
  /\ min_elevation = MinOfGrid(last_grid, MaxHeight)
  /\ is_ground = EmptyGrid
  /\ building_slope_threshold \in Thresholds
  /\ HILL_SHADE = 1
  /\ cout = <<>>
  /\ fg_is_ground = FgEntry(last_grid).ig
  /\ q = FgEntry(last_grid).q
  /\ unclassified_count = FgEntry(last_grid).cnt
  /\ pc = "fg_seed"

SpecPlateau == InitPlateau /\ [][NextFG]_vars

\* classification under the scheduling of the single control thread: a run
\* of find_ground that has started is carried on
SpecFGFair == SpecFG /\ WF_vars(FgSeed \/ FgBfs \/ FgLoopAgain \/ FgReturn)

\* ------------------------------------------------- claims on classification

Valid(grid, c) == At(grid, c) # NODATA
Adjacent(c, d) ==
  \/ (c[1] = d[1] /\ (c[2] = d[2] + 1 \/ d[2] = c[2] + 1))
  \/ (c[2] = d[2] /\ (c[1] = d[1] + 1 \/ d[1] = c[1] + 1))
Neighbours(grid, c) == {d \in Cells(grid) : Adjacent(c, d)}
Queued == {<<q[k][1], q[k][2]>> : k \in 1..Len(q)}
Running == pc \in {"fg_seed", "fg_bfs"}
AllNodata(grid) == \A c \in Cells(grid) : ~Valid(grid, c)
Flat(grid) ==
  \A c \in Cells(grid) : Valid(grid, c) /\ At(grid, c) = At(grid, <<0, 0>>)

\* C1: at every step of a run of find_ground, and in the grid it returns, a
\* NODATA cell of last_grid is Unclassified (-1) and is never on the work queue.
C1_NodataInert ==
  \A c \in Cells(last_grid) :
    ~Valid(last_grid, c) =>
      /\ Running => At(fg_is_ground, c) = Unclassified
      /\ Running => c \notin Queued
      /\ is_ground # EmptyGrid => At(is_ground, c) = Unclassified

\* C2: when find_ground has returned, every non-NODATA cell of last_grid is
\* labelled Ground or Building in is_ground.
C2_AllClassified ==
  is_ground # EmptyGrid =>
    \A c \in Cells(last_grid) :
      Valid(last_grid, c) => At(is_ground, c) \in {Ground, Building}

\* C2 witness: a finished run on a grid with a cell whose neighbours are all
\* NODATA and a cell, not the lowest of the grid, whose neighbours are all
\* higher than it (so only downward steps lead to it).
C2_Witness ==
  /\ pc = "idle"
  /\ \E c \in Cells(last_grid) :
       /\ Valid(last_grid, c)
       /\ Neighbours(last_grid, c) # {}
       /\ \A d \in Neighbours(last_grid, c) : ~Valid(last_grid, d)
  /\ \E c \in Cells(last_grid) :
       /\ Valid(last_grid, c)
       /\ \E d \in Neighbours(last_grid, c) : Valid(last_grid, d)
       /\ \A d \in Neighbours(last_grid, c) :
            Valid(last_grid, d) => At(last_grid, d) > At(last_grid, c)
       /\ \E e \in Cells(last_grid) :
            Valid(last_grid, e) /\ At(last_grid, e) < At(last_grid, c)
       /\ At(is_ground, c) = Ground

\* C3: the cells that are Ground under the current threshold are Ground under
\* every higher threshold, classifying the same grid from scratch.
C3_Monotone ==
  pc = "idle" =>
    \A t2 \in Thresholds :
      t2 > building_slope_threshold =>
        LET higher == find_ground(last_grid, t2)
        IN \A c \in Cells(last_grid) :
             At(is_ground, c) = Ground => At(higher, c) = Ground

\* C3 witness: a finished run whose labels differ from those of a higher
\* threshold, under which a Building cell has become Ground.
C3_Witness ==
  /\ pc = "idle"
  /\ \E t2 \in Thresholds :
       /\ t2 > building_slope_threshold
       /\ LET higher == find_ground(last_grid, t2)
          IN \E c \in Cells(last_grid) :
               /\ At(is_ground, c) = Building
               /\ At(higher, c) = Ground

\* C4: whenever the program waits for a key, is_ground is find_ground of
\* last_grid under the current threshold; no step changes last_grid, elevation
\* or min_elevation; a key that changes the threshold changes it by one step
\* and starts a run from an all-Unclassified grid, and any other key leaves the
\* threshold and is_ground as they are.
C4_Recomputed ==
  /\ [](pc = "idle" =>
          is_ground = find_ground(last_grid, building_slope_threshold))
  /\ [][UNCHANGED grid_vars]_vars
  /\ [][pc = "idle" =>
          IF building_slope_threshold' # building_slope_threshold
          THEN /\ building_slope_threshold' \in
                    {building_slope_threshold - 1, building_slope_threshold + 1}
               /\ pc' = "fg_seed"
               /\ fg_is_ground' = FgEntry(last_grid).ig
          ELSE is_ground' = is_ground /\ pc' # "fg_seed"]_vars

\* C4 witness: after a '+' or '-' (cout holds the threshold it printed) the
\* recomputation has returned with labels that differ from the ones the
\* threshold one step lower gives.
C4_Witness ==
  /\ pc = "idle"
  /\ cout = <<building_slope_threshold>>
  /\ building_slope_threshold - 1 \in Thresholds
  /\ is_ground # find_ground(last_grid, building_slope_threshold - 1)

UnclassifiedValid ==
  {c \in Cells(last_grid) :
     Valid(last_grid, c) /\ At(fg_is_ground, c) = Unclassified}

\* C5: every seed selection (outer iteration) labels a cell that was
\* Unclassified and non-NODATA before, so there are at most as many seed
\* selections as non-NODATA cells.
C5_SeedLabelsFreshCell ==
  [][(pc = "fg_seed" /\ pc' = "fg_bfs") =>
       Cardinality(UnclassifiedValid') < Cardinality(UnclassifiedValid)]_vars

\* C5, the termination alone: a run of find_ground that has started returns.
C5_Terminates == [](Running => <>(pc = "idle"))

\* C6 as stated: on a flat grid every cell is Ground, for any threshold.
C6_FlatAllGround ==
  (pc = "idle" /\ Flat(last_grid)) =>
    \A c \in Cells(last_grid) : At(is_ground, c) = Ground

\* C6 as amended: on a flat grid every cell is Ground, for any threshold >= 0.
C6_FlatAllGroundNonNegative ==
  (pc = "idle" /\ Flat(last_grid) /\ building_slope_threshold >= 0) =>
    \A c \in Cells(last_grid) : At(is_ground, c) = Ground

\* C6 witness: a finished run on a flat 2 x 2 grid with a threshold >= 0.
C6_Witness ==
  /\ pc = "idle"
  /\ Flat(last_grid)
  /\ NumRows(last_grid) = 2 /\ NumCols(last_grid) = 2
  /\ building_slope_threshold >= 0

\* C7: an expansion step neither labels nor enqueues an unlabelled non-NODATA
\* neighbour that is lower than the popped cell, whatever the threshold.
C7_DownwardPruned ==
  [][(pc = "fg_bfs" /\ q # <<>>) =>
       \A n \in Neighbours(last_grid, <<Head(q)[1], Head(q)[2]>>) :
         (/\ Valid(last_grid, n)
          /\ At(fg_is_ground, n) = Unclassified
          /\ At(last_grid, n) < Head(q)[3])
         => /\ fg_is_ground'[n[1]][n[2]] = Unclassified
            /\ \A k \in 1..Len(q') : <<q'[k][1], q'[k][2]>> # n]_vars

\* the position of a cell in the row-major scan of lines 938-939
RowMajor(grid, c) == c[1] * NumCols(grid) + c[2]

\* the cell that the last push put on the queue
LastPushed(queue) == <<queue[Len(queue)][1], queue[Len(queue)][2]>>

\* C11: every seed selection pushes and labels Ground a cell that was
\* non-NODATA and Unclassified, that is lowest among such cells, and that comes
\* first in row-major order among the lowest; a finished run on a 1 x 1 grid
\* with a valid cell has labelled it Ground.
C11_SeedIsLowest ==
  /\ [][(pc = "fg_seed" /\ pc' = "fg_bfs") =>
          LET s == LastPushed(q')
          IN /\ s \in UnclassifiedValid
             /\ \A c \in UnclassifiedValid :
                  \/ At(last_grid, s) < At(last_grid, c)
                  \/ /\ At(last_grid, s) = At(last_grid, c)
                     /\ RowMajor(last_grid, s) <= RowMajor(last_grid, c)
             /\ At(fg_is_ground', s) = Ground]_vars
  /\ []((/\ pc = "idle"
         /\ Cells(last_grid) = {<<0, 0>>}
         /\ Valid(last_grid, <<0, 0>>))
        => At(is_ground, <<0, 0>>) = Ground)

\* the cells of the queue, as cells
CellsOn(queue) == {<<queue[k][1], queue[k][2]>> : k \in 1..Len(queue)}

\* a cell with all four compass neighbours inside the grid
Interior(grid, c) == Cardinality(Neighbours(grid, c)) = 4

\* the grid is flat but for cell c, which is raised by more than the threshold
FlatButRaised(grid, c, threshold) ==
  \A d \in Cells(grid) \ {c} :
    /\ Valid(grid, d)
    /\ \A e \in Cells(grid) \ {c} : At(grid, e) = At(grid, d)
    /\ Valid(grid, c)
    /\ At(grid, c) - At(grid, d) > threshold

\* an expansion step labels Building and enqueues every unlabelled non-NODATA
\* compass neighbour that is higher than the popped cell by more than the
\* threshold, and labels no cell that is not a compass neighbour
SteepIsBuilding ==
  [][(pc = "fg_bfs" /\ q # <<>>) =>
       LET current == <<Head(q)[1], Head(q)[2]>>
       IN /\ \A n \in Neighbours(last_grid, current) :
               (/\ Valid(last_grid, n)
                /\ At(fg_is_ground, n) = Unclassified
                /\ At(last_grid, n) - Head(q)[3] > building_slope_threshold)
               => /\ At(fg_is_ground', n) = Building
                  /\ n \in CellsOn(q')
          /\ \A c \in Cells(last_grid) :
               At(fg_is_ground', c) # At(fg_is_ground, c)
               => c \in Neighbours(last_grid, current)]_vars

\* C12 as stated: steep neighbours become Building, and on a grid that is flat
\* but for one interior cell raised by more than the threshold the raised cell
\* is the only Building cell, for any threshold.
C12_RaisedCellOnlyBuilding ==
  /\ SteepIsBuilding
  /\ [](pc = "idle" =>
          \A c \in Cells(last_grid) :
            (/\ Interior(last_grid, c)
             /\ FlatButRaised(last_grid, c, building_slope_threshold))
            => \A d \in Cells(last_grid) :
                 At(is_ground, d) = IF d = c THEN Building ELSE Ground)

\* C12 as amended: the same, for any threshold >= 0.
C12_RaisedCellOnlyBuildingNonNegative ==
  /\ SteepIsBuilding
  /\ []((pc = "idle" /\ building_slope_threshold >= 0) =>
          \A c \in Cells(last_grid) :
            (/\ Interior(last_grid, c)
             /\ FlatButRaised(last_grid, c, building_slope_threshold))
            => \A d \in Cells(last_grid) :
                 At(is_ground, d) = IF d = c THEN Building ELSE Ground)

\* C12 witness: a finished run, with a threshold >= 0, on a grid that is flat
\* but for its interior cell, raised by more than the threshold.
C12_Witness ==
  /\ pc = "idle"
  /\ building_slope_threshold >= 0
  /\ Interior(last_grid, <<1, 1>>)
  /\ FlatButRaised(last_grid, <<1, 1>>, building_slope_threshold)
  /\ At(is_ground, <<1, 1>>) = Building

\* the seeds of a run of find_ground from state st on: the cell each seed
\* selection pushes
RECURSIVE SeedsOfRun(_, _, _)
SeedsOfRun(grid, threshold, st) ==
  LET seeded == SeedStep(grid, st)
      after == RunBfs(grid, threshold, seeded)
  IN {LastPushed(seeded.q)} \cup
       (IF LoopAgain(after.cnt) THEN SeedsOfRun(grid, threshold, after) ELSE {})

SeedsOf(grid, threshold) == SeedsOfRun(grid, threshold, FgEntry(grid))

\* a step from c to the adjacent d that is non-decreasing and at most the
\* threshold
GentleStep(grid, threshold, c, d) ==
  /\ Adjacent(c, d)
  /\ At(grid, d) - At(grid, c) >= 0
  /\ At(grid, d) - At(grid, c) <= threshold

\* the cells joined to a cell of S by a path of Ground cells of gentle steps
RECURSIVE GentleReach(_, _, _, _)
GentleReach(grid, labels, threshold, S) ==
  LET more == {d \in Cells(grid) \ S :
                 /\ At(labels, d) = Ground
                 /\ \E c \in S : GentleStep(grid, threshold, c, d)}
  IN IF more = {} THEN S ELSE GentleReach(grid, labels, threshold, S \cup more)

\* C13: in every result of find_ground the seeds are Ground and every Ground
\* cell is joined to a seed by a path of 4-adjacent Ground cells whose steps
\* are non-decreasing and at most the threshold; an expansion step labels a
\* cell Ground only from a Ground cell across such a step, and labels Building
\* every cell it labels from a Building cell.
C13_GroundFromSeeds ==
  /\ [](pc = "idle" =>
          LET seeds == SeedsOf(last_grid, building_slope_threshold)
              joined == GentleReach(last_grid, is_ground,
                                    building_slope_threshold, seeds)
          IN /\ \A c \in seeds : At(is_ground, c) = Ground
             /\ \A c \in Cells(last_grid) :
                  At(is_ground, c) = Ground => c \in joined)
  /\ [][(pc = "fg_bfs" /\ q # <<>>) =>
          LET current == <<Head(q)[1], Head(q)[2]>>
          IN \A c \in Cells(last_grid) :
               At(fg_is_ground', c) # At(fg_is_ground, c) =>
                 /\ At(fg_is_ground', c) = Ground =>
                      /\ At(fg_is_ground, current) = Ground
                      /\ GentleStep(last_grid, building_slope_threshold,
                                    current, c)
                 /\ At(fg_is_ground, current) = Building =>
                      At(fg_is_ground', c) = Building]_vars

\* C13 witness: a finished run with a Ground cell that is not a seed and a
\* Building cell that no neighbour reaches by a step above the threshold, so
\* that it has its label from a Building cell across a gentle step.
C13_Witness ==
  /\ pc = "idle"
  /\ \E c \in Cells(last_grid) :
       /\ At(is_ground, c) = Ground
       /\ c \notin SeedsOf(last_grid, building_slope_threshold)
  /\ \E d \in Cells(last_grid) :
       /\ At(is_ground, d) = Building
       /\ \A n \in Neighbours(last_grid, d) :
            Valid(last_grid, n) =>
              At(last_grid, d) - At(last_grid, n) <= building_slope_threshold

\* no cell is twice on the queue
NoDuplicates(queue) ==
  \A k, l \in 1..Len(queue) :
    (queue[k][1] = queue[l][1] /\ queue[k][2] = queue[l][2]) => k = l

\* the cells that a step pushes: on the queue after it and not before
Pushed == CellsOn(q') \ CellsOn(q)

\* the number of pushes of a step: the growth of the queue, plus the cell
\* that an expansion step pops
Pushes == Len(q') - Len(q) + (IF pc = "fg_bfs" /\ q # <<>> THEN 1 ELSE 0)

\* C14: during a run of find_ground every cell on the queue is labelled and is
\* there once; a step of the run leaves every label other than Unclassified
\* as it is, changes Unclassified only to Ground or Building, and pushes only
\* cells that were Unclassified before it and are labelled after it, each push
\* being of a different cell (so that no cell is pushed twice).
C14_LabelledOnce ==
  /\ [](Running =>
          /\ NoDuplicates(q)
          /\ \A c \in CellsOn(q) : At(fg_is_ground, c) \in {Ground, Building})
  /\ [][(Running /\ Running') =>
          /\ \A c \in Cells(last_grid) :
               IF At(fg_is_ground, c) # Unclassified
               THEN At(fg_is_ground', c) = At(fg_is_ground, c)
               ELSE At(fg_is_ground', c) \in {Unclassified, Ground, Building}
          /\ \A c \in Pushed :
               /\ At(fg_is_ground, c) = Unclassified
               /\ At(fg_is_ground', c) \in {Ground, Building}
          /\ Pushes = Cardinality(Pushed)]_vars

\* C14 witness: a run with two cells on the queue, the first of which has a
\* labelled neighbour at least as high as itself: only the visited check of
\* line 981 keeps the step from labelling and pushing it again.
C14_Witness ==
  /\ pc = "fg_bfs"
  /\ Len(q) >= 2
  /\ \E n \in Neighbours(last_grid, <<Head(q)[1], Head(q)[2]>>) :
       /\ Valid(last_grid, n)
       /\ At(fg_is_ground, n) # Unclassified
       /\ At(last_grid, n) >= Head(q)[3]

\* ------------------------------------------------- claims on rasterization

\* gridify has run to its end on an input for which it is defined
GridifyDone == pc \in {"fg_seed", "fg_bfs", "idle", "exited"}

\* lines 256-269 with the test the LAST_RETURN comment states (lines 114-115):
\* the z values of the points of a cell that are the last return of their pulse
RECURSIVE TrueLastSamples(_, _, _)
TrueLastSamples(k, r, c) ==
  IF k = 0 THEN <<>>
  ELSE LET p == points[k]
           before == TrueLastSamples(k - 1, r, c)
       IN IF /\ CellRow(p, points, point_density, bbox) = r
             /\ CellCol(p, points, point_density, bbox) = c
             /\ p.return_number = p.nb_of_returns
          THEN Append(before, p.z)
          ELSE before

\* a grid value is NODATA for an empty sample list and its mean otherwise
MeanOrNodata(v, samples) ==
  IF samples = <<>> THEN v = NODATA
  ELSE v # NODATA /\ v * Len(samples) = SumSeq(samples)

\* C8: after gridify every cell of the rows x cols grids holds NODATA when its
\* sample list is empty and the mean of the list otherwise, in elevation
\* (first returns) and in last_grid (the depth list).
C8_MeanOrNodata ==
  GridifyDone =>
    \A r \in 0..(GridRows(points, point_density, bbox) - 1),
       c \in 0..(GridCols(points, point_density, bbox) - 1) :
      /\ MeanOrNodata(elevation[r][c],
                      Samples(points, point_density, bbox, Len(points), r, c, 1))
      /\ MeanOrNodata(last_grid[r][c],
                      Samples(points, point_density, bbox, Len(points), r, c, 2))

\* C9: after gridify every cell the averaging loops visit holds, in last_grid,
\* the average of the last-return points of the cell only (return_number =
\* nb_of_returns), NODATA when there is none.
C9_LastReturnsOnly ==
  GridifyDone =>
    \A r \in 0..(NumRows(last_grid) - 1), c \in 0..(NumCols(last_grid) - 1) :
      Averaged(NumRows(last_grid), NumCols(last_grid), r, c) =>
        last_grid[r][c] = CellAverage(TrueLastSamples(Len(points), r, c))

\* the cells of the stored elevation grid that hold a value
ElevationCells == {c \in Cells(elevation) : Valid(elevation, c)}

\* gridify has returned: to its end on an input for which it is defined, or
\* after undefined behaviour, with nothing known about what it stored
GridifyReturned == GridifyDone \/ pc = "undefined"

\* the stored elevation grid has a non-NODATA cell, min_elevation is the value
\* of one of its non-NODATA cells and no such cell is lower
MinElevationIsMin ==
  ElevationCells # {} =>
    /\ \E c \in ElevationCells : At(elevation, c) = min_elevation
    /\ \A c \in ElevationCells : At(elevation, c) >= min_elevation

C15_WitnessWide ==
  /\ GridifyDone
  /\ NumRows(elevation) < NumCols(elevation)
  /\ ElevationCells # {}
  /\ min_elevation < bbox.maxz

\* C10: once gridify has been reached with no point, no cell, or a bounding
\* box of no width or no height, the program has ended in its error exit and
\* no grid has been produced.
C10_FailFast ==
  (pc \notin {"main", "read", "gridify"}
   /\ Degenerate(points, point_density, bbox)) =>
    /\ pc = "exit1"
    /\ elevation = EmptyGrid /\ last_grid = EmptyGrid /\ is_ground = EmptyGrid

\* C16: for a point set that gives a grid, every point is binned into a cell
\* with 0 <= r < rows and 0 <= c < cols, and the averaging loops visit only
\* cells [i][j] with i < rows and j < cols.
C16_AccessesInBounds ==
  (pc \notin {"main", "read"} /\ ~Degenerate(points, point_density, bbox)) =>
    LET rows == GridRows(points, point_density, bbox)
        cols == GridCols(points, point_density, bbox)
    IN /\ \A k \in 1..Len(points) :
            /\ CellRow(points[k], points, point_density, bbox) \in 0..(rows - 1)
            /\ CellCol(points[k], points, point_density, bbox) \in 0..(cols - 1)
       /\ \A i \in 0..(rows - 1), j \in 0..(Max2(rows, cols) - 1) :
            Averaged(rows, cols, i, j) => j < cols

====
